---- MODULE Spec2Model ----
\* A state-machine model of the SoundCloud auto-liker (src/soundcloud_bot.py):
\* the per-cycle pipeline (fetch, recency, dedup, content filter, like, flush),
\* the state file processed_tracks.json, and process kills and restarts.
EXTENDS Integers, Sequences, FiniteSets, TLC

\* ------------------------------------------------------------------ bounds
\* Raw items the upstream sources yield in one cycle, over all sources.
MaxItems == 2
\* The wall clock runs from 1 to MaxNow (in clock ticks).
MaxNow == 2
\* Timestamps and cutoffs handed to is_track_recent range over 0..MaxWall.
MaxWall == 3
\* The identifiers a state file under test holds are among 1..MaxFileId.
MaxFileId == 4

\* ------------------------------------------------------- values and helpers
\* Python's None (or 0) as a track identifier: falsy, so the item is unusable.
NoId == 0
\* Python's None as the value of the genre attribute.
NoneGenre == "<None>"
SeqsUpTo(S, n) == UNION {[1..k -> S] : k \in 0..n}

\* str.lower() on the category labels that occur.
Lower(s) ==
    CASE s = "Rock" -> "rock"
      [] s = "POP" -> "pop"
      [] OTHER -> s

\* ---------------------------------------------------------------- timestamps
\* A created_at value: absent (''), a string that is no ISO timestamp, or an
\* ISO timestamp with wall-clock reading `wall` and a zone suffix.
NoTs == [kind |-> "absent", wall |-> 0, sfx |-> ""]
BadTs == [kind |-> "garbage", wall |-> 0, sfx |-> ""]
Iso(w, s) == [kind |-> "iso", wall |-> w, sfx |-> s]

\* created_at.replace('Z', '+00:00')
ReplaceZ(c) == IF c.sfx = "Z" THEN [c EXCEPT !.sfx = "+00:00"] ELSE c

\* datetime.fromisoformat: the wall-clock fields and the offset of the suffix,
\* in ticks; a bare 'Z' is not accepted.
FromIso(c) ==
    CASE c.kind # "iso" -> [ok |-> FALSE, wall |-> 0, off |-> 0, aware |-> FALSE]
      [] c.sfx = "Z" -> [ok |-> FALSE, wall |-> 0, off |-> 0, aware |-> FALSE]
      [] c.sfx = "" -> [ok |-> TRUE, wall |-> c.wall, off |-> 0, aware |-> FALSE]
      [] c.sfx = "+00:00" -> [ok |-> TRUE, wall |-> c.wall, off |-> 0, aware |-> TRUE]
      [] c.sfx = "+01:00" -> [ok |-> TRUE, wall |-> c.wall, off |-> 1, aware |-> TRUE]
      [] OTHER -> [ok |-> FALSE, wall |-> 0, off |-> 0, aware |-> FALSE]

\* track_time.replace(tzinfo=None): the zone is dropped, the fields are kept.
StripTz(d) == [d EXCEPT !.off = 0, !.aware = FALSE]

is_track_recent_ge(created_at, cutoff_time) ==
    IF created_at.kind = "absent" THEN TRUE
    ELSE LET d == FromIso(ReplaceZ(created_at))
         IN  IF ~d.ok THEN TRUE
             ELSE StripTz(d).wall >= cutoff_time

is_track_recent(created_at, cutoff_time) ==
    IF created_at.kind = "absent" THEN TRUE
    ELSE LET d == FromIso(ReplaceZ(created_at))
         IN  IF ~d.ok THEN TRUE
             ELSE StripTz(d).wall > cutoff_time

\* ------------------------------------------------------------ content filter
\* filters of the default configuration: every rule disabled.
DefaultFilters ==
    [min_duration_seconds |-> 0, max_duration_seconds |-> 0,
     genres |-> <<>>, min_likes |-> 0]

StrictFilters ==
    [min_duration_seconds |-> 2, max_duration_seconds |-> 4,
     genres |-> <<"Rock">>, min_likes |-> 1]

\* [g.lower() for g in filters['genres']], as the set the membership test reads.
LowerAll(genres) == {Lower(genres[i]) : i \in 1..Len(genres)}

\* apply_filters: "pass" (True), "reject" (False) or "raise" (an exception
\* leaves the function: None has no lower()). duration is in milliseconds and
\* duration / 1000 is compared with the bounds in seconds.
apply_filters(track, filters) ==
    IF filters.min_duration_seconds > 0
         /\ track.duration < filters.min_duration_seconds * 1000 THEN "reject"
    ELSE IF filters.max_duration_seconds > 0
         /\ track.duration > filters.max_duration_seconds * 1000 THEN "reject"
    ELSE IF track.genre = NoneGenre THEN "raise"
    ELSE IF filters.genres # <<>>
         /\ Lower(track.genre) \notin LowerAll(filters.genres) THEN "reject"
    ELSE IF track.likes_count < filters.min_likes THEN "reject"
    ELSE "pass"

\* ------------------------------------------------------------------- tracks
Item(shape, id, created_at, duration, genre, likes_count, uid) ==
    [shape |-> shape, id |-> id, created_at |-> created_at,
     duration |-> duration, genre |-> genre, likes_count |-> likes_count,
     uid |-> uid]

\* The raw items the upstream can yield. shape: "bare" (the item is the track),
\* "wrapped" (the item carries the track in its track attribute), "broken"
\* (reading its attributes raises).
Pool ==
    { Item("bare", 1, NoTs, 3000, "Rock", 5, 9),
      Item("wrapped", 1, NoTs, 3000, "pop", 5, 7),
      Item("bare", 2, Iso(1, "Z"), 3000, "rock", 5, 9),
      Item("bare", 3, NoTs, 3000, NoneGenre, 5, 9),
      Item("bare", NoId, NoTs, 3000, "rock", 5, 9),
      Item("broken", 2, NoTs, 3000, "rock", 5, 9) }

Ids == {it.id : it \in Pool} \ {NoId}

\* The dict get_track_info returns when extraction raises: {}.
EmptyDict ==
    [shape |-> "empty", id |-> NoId, created_at |-> NoTs, duration |-> 0,
     genre |-> "", likes_count |-> 0, uid |-> 0]

\* getattr(item, 'track', item): the payload of a wrapped item.
Unwrap(item) == IF item.shape = "wrapped" THEN [item EXCEPT !.shape = "bare"] ELSE item

\* get_track_info on an object: the dict of its attributes, {} when reading
\* raises; an object without the track attributes (a wrapper that was not
\* unwrapped) gives the defaults, with id None.
get_track_info(obj) ==
    CASE obj.shape = "broken" -> EmptyDict
      [] obj.shape = "wrapped" ->
            [shape |-> "dict", id |-> NoId, created_at |-> NoTs, duration |-> 0,
             genre |-> "", likes_count |-> 0, uid |-> 0]
      [] OTHER -> [obj EXCEPT !.shape = "dict"]

\* not track_dict or not track_dict.get('id')
Unusable(track_dict) == track_dict.shape = "empty" \/ track_dict.id = NoId

\* ------------------------------------------------------------ configuration
Config(dry_run, auth_token, new_tracks, reposts, repost_artists, filters) ==
    [dry_run |-> dry_run, auth_token |-> auth_token, hours_lookback |-> 1,
     auto_like_new_tracks |-> new_tracks, auto_like_reposts |-> reposts,
     repost_artists |-> repost_artists, filters |-> filters]

\* The configurations a process is started with (auth_token: whether one is
\* set). The configuration does not change while the process lives.
Configs ==
    { Config(TRUE, FALSE, TRUE, TRUE, <<7>>, StrictFilters),
      Config(FALSE, TRUE, TRUE, TRUE, <<7>>, StrictFilters),
      Config(FALSE, FALSE, TRUE, TRUE, <<7>>, DefaultFilters),
      Config(FALSE, TRUE, FALSE, TRUE, <<7, 8>>, DefaultFilters) }

\* ------------------------------------------------------------ the state file
MissingFile == [state |-> "missing", ids |-> {}]
\* open(path, 'w') has truncated the file and nothing has reached it yet.
EmptyFile == [state |-> "empty", ids |-> {}]
\* A prefix of the JSON text has reached the file: no valid JSON document.
PartialFile == [state |-> "partial", ids |-> {}]
\* A document whose list of identifiers is written empty.
CompleteFile_empty(ids) == [state |-> "complete", ids |-> {}]

\* The document json.dump writes: the identifiers (last_updated is left out).
CompleteFile(ids) == [state |-> "complete", ids |-> ids]

\* A valid JSON object without the key 'track_ids' (ids: the identifiers the
\* document holds elsewhere, for example under a misspelt key).
ForeignFile(ids) == [state |-> "no_key", ids |-> ids]
\* A valid JSON document that is no object: the bare list of identifiers.
ListFile(ids) == [state |-> "not_object", ids |-> ids]

\* load_processed_tracks: the set, or an exception (ok false) out of json.load
\* or out of data.get; data.get('track_ids', []) of an object without the key
\* is the empty list.
load_processed_tracks(f) ==
    CASE f.state = "missing" -> [ok |-> TRUE, ids |-> {}]
      [] f.state = "complete" -> [ok |-> TRUE, ids |-> f.ids]
      [] f.state = "no_key" -> [ok |-> TRUE, ids |-> {}]
      [] OTHER -> [ok |-> FALSE, ids |-> {}]

\* ------------------------------------------------------------------ fetching
RECURSIVE new_tracks_of_nodedup(_, _, _)
\* new_tracks_of without the test against processed_tracks.
new_tracks_of_nodedup(items, processed, cutoff_time) ==
    IF items = <<>> THEN <<>>
    ELSE LET track_dict == get_track_info(Unwrap(Head(items)))
             rest == new_tracks_of_nodedup(Tail(items), processed, cutoff_time)
         IN  IF Unusable(track_dict) THEN rest
             ELSE IF is_track_recent(track_dict.created_at, cutoff_time)
                  THEN <<track_dict>> \o rest
                  ELSE rest

RECURSIVE new_tracks_of_noskip(_, _, _)
\* new_tracks_of without the continue on a dict that is empty or has no id.
new_tracks_of_noskip(items, processed, cutoff_time) ==
    IF items = <<>> THEN <<>>
    ELSE LET track_dict == get_track_info(Unwrap(Head(items)))
             rest == new_tracks_of_noskip(Tail(items), processed, cutoff_time)
         IN  IF track_dict.id \notin processed
                /\ is_track_recent(track_dict.created_at, cutoff_time)
             THEN <<track_dict>> \o rest
             ELSE rest

RECURSIVE new_tracks_of(_, _, _)
\* The loop of get_new_tracks_from_followings over the stream items.
new_tracks_of(items, processed, cutoff_time) ==
    IF items = <<>> THEN <<>>
    ELSE LET track_dict == get_track_info(Unwrap(Head(items)))
             rest == new_tracks_of(Tail(items), processed, cutoff_time)
         IN  IF Unusable(track_dict) THEN rest
             ELSE IF track_dict.id \notin processed
                     /\ is_track_recent(track_dict.created_at, cutoff_time)
                  THEN <<track_dict>> \o rest
                  ELSE rest

RECURSIVE repost_tracks_of_nodedup(_, _, _, _, _)
\* repost_tracks_of without the test against processed_tracks.
repost_tracks_of_nodedup(items, artist_id, use_repost_method, processed, cutoff_time) ==
    IF items = <<>> THEN <<>>
    ELSE LET track == IF use_repost_method THEN Unwrap(Head(items)) ELSE Head(items)
             track_dict == get_track_info(track)
             is_repost == use_repost_method \/ track_dict.uid # artist_id
             rest == repost_tracks_of_nodedup(Tail(items), artist_id,
                                              use_repost_method, processed, cutoff_time)
         IN  IF Unusable(track_dict) THEN rest
             ELSE IF is_repost /\ is_track_recent(track_dict.created_at, cutoff_time)
                  THEN <<track_dict>> \o rest
                  ELSE rest

RECURSIVE repost_tracks_of_anyone(_, _, _, _, _)
\* repost_tracks_of that takes every listed track for a repost.
repost_tracks_of_anyone(items, artist_id, use_repost_method, processed, cutoff_time) ==
    IF items = <<>> THEN <<>>
    ELSE LET track == IF use_repost_method THEN Unwrap(Head(items)) ELSE Head(items)
             track_dict == get_track_info(track)
             rest == repost_tracks_of_anyone(Tail(items), artist_id,
                                             use_repost_method, processed, cutoff_time)
         IN  IF Unusable(track_dict) THEN rest
             ELSE IF track_dict.id \notin processed
                     /\ is_track_recent(track_dict.created_at, cutoff_time)
                  THEN <<track_dict>> \o rest
                  ELSE rest

RECURSIVE repost_tracks_of(_, _, _, _, _)
\* The loop of get_reposts_from_selected_artists over one artist's items.
\* use_repost_method: get_user_reposts exists (its items are unwrapped);
\* otherwise get_user_tracks is listed and the publisher decides.
repost_tracks_of(items, artist_id, use_repost_method, processed, cutoff_time) ==
    IF items = <<>> THEN <<>>
    ELSE LET track == IF use_repost_method THEN Unwrap(Head(items)) ELSE Head(items)
             track_dict == get_track_info(track)
             is_repost == use_repost_method \/ track_dict.uid # artist_id
             rest == repost_tracks_of(Tail(items), artist_id, use_repost_method,
                                      processed, cutoff_time)
         IN  IF Unusable(track_dict) THEN rest
             ELSE IF is_repost /\ track_dict.id \notin processed
                     /\ is_track_recent(track_dict.created_at, cutoff_time)
                  THEN <<track_dict>> \o rest
                  ELSE rest

\* unique_tracks_of without the dict: every usable track is kept.
unique_tracks_of_all(tracks, seen) ==
    SelectSeq(tracks, LAMBDA t : t.id # NoId)

RECURSIVE unique_tracks_of(_, _)
\* The dedup loop of run_once: the values of unique_tracks in insertion order;
\* seen: the keys already in the dict.
unique_tracks_of(tracks, seen) ==
    IF tracks = <<>> THEN <<>>
    ELSE LET track == Head(tracks)
         IN  IF track.id # NoId /\ track.id \notin seen
             THEN <<track>> \o unique_tracks_of(Tail(tracks), seen \cup {track.id})
             ELSE unique_tracks_of(Tail(tracks), seen)

\* ------------------------------------------------------------------- acting
\* like_track without the dry_run branch.
like_track_live(track, cfg, remote) ==
    IF track.id = NoId THEN [ret |-> FALSE, called |-> FALSE, outcome |-> "no_id"]
    ELSE IF ~cfg.auth_token THEN [ret |-> FALSE, called |-> FALSE, outcome |-> "no_auth"]
    ELSE IF remote = "ok" THEN [ret |-> TRUE, called |-> TRUE, outcome |-> "liked"]
    ELSE [ret |-> FALSE, called |-> TRUE, outcome |-> "like_error"]

\* like_track without the auth_token check.
like_track_no_token_check(track, cfg, remote) ==
    IF cfg.dry_run THEN [ret |-> TRUE, called |-> FALSE, outcome |-> "simulated"]
    ELSE IF track.id = NoId THEN [ret |-> FALSE, called |-> FALSE, outcome |-> "no_id"]
    ELSE IF remote = "ok" THEN [ret |-> TRUE, called |-> TRUE, outcome |-> "liked"]
    ELSE [ret |-> FALSE, called |-> TRUE, outcome |-> "like_error"]

\* like_track: ret is the value returned, called whether client.like_track
\* was called; remote is the outcome of that call ("ok" or "error").
like_track(track, cfg, remote) ==
    IF cfg.dry_run THEN [ret |-> TRUE, called |-> FALSE, outcome |-> "simulated"]
    ELSE IF track.id = NoId THEN [ret |-> FALSE, called |-> FALSE, outcome |-> "no_id"]
    ELSE IF ~cfg.auth_token THEN [ret |-> FALSE, called |-> FALSE, outcome |-> "no_auth"]
    ELSE IF remote = "ok" THEN [ret |-> TRUE, called |-> TRUE, outcome |-> "liked"]
    ELSE [ret |-> FALSE, called |-> TRUE, outcome |-> "like_error"]

\* process_one that marks a track whatever like_track returns.
process_one_mark_always(track, cfg, processed, remote) ==
    LET verdict == apply_filters(track, cfg.filters)
        liked == like_track(track, cfg, remote)
    IN  CASE verdict = "raise" ->
                [processed |-> processed, outcome |-> "raised", called |-> FALSE,
                 attempted |-> FALSE, escapes |-> FALSE, slept |-> FALSE]
          [] verdict = "reject" ->
                [processed |-> processed \cup {track.id},
                 outcome |-> "filtered", called |-> FALSE, attempted |-> FALSE, escapes |-> FALSE, slept |-> FALSE]
          [] OTHER ->
                [processed |-> processed \cup {track.id},
                 outcome |-> liked.outcome, called |-> liked.called,
                 attempted |-> TRUE, escapes |-> FALSE, slept |-> TRUE]

\* process_one that does not mark a track the filter rejects.
process_one_skip_rejected(track, cfg, processed, remote) ==
    LET verdict == apply_filters(track, cfg.filters)
        liked == like_track(track, cfg, remote)
    IN  CASE verdict = "raise" ->
                [processed |-> processed, outcome |-> "raised", called |-> FALSE,
                 attempted |-> FALSE, escapes |-> FALSE, slept |-> FALSE]
          [] verdict = "reject" ->
                [processed |-> processed,
                 outcome |-> "filtered", called |-> FALSE, attempted |-> FALSE, escapes |-> FALSE, slept |-> FALSE]
          [] OTHER ->
                [processed |-> IF liked.ret /\ track.id # NoId
                               THEN processed \cup {track.id} ELSE processed,
                 outcome |-> liked.outcome, called |-> liked.called,
                 attempted |-> TRUE, escapes |-> FALSE, slept |-> TRUE]

\* process_one that marks a track when an exception is caught.
process_one_mark_raised(track, cfg, processed, remote) ==
    LET verdict == apply_filters(track, cfg.filters)
        liked == like_track(track, cfg, remote)
    IN  CASE verdict = "raise" ->
                [processed |-> processed \cup {track.id}, outcome |-> "raised",
                 called |-> FALSE, attempted |-> FALSE, escapes |-> FALSE, slept |-> FALSE]
          [] verdict = "reject" ->
                [processed |-> processed \cup {track.id},
                 outcome |-> "filtered", called |-> FALSE, attempted |-> FALSE, escapes |-> FALSE, slept |-> FALSE]
          [] OTHER ->
                [processed |-> IF liked.ret /\ track.id # NoId
                               THEN processed \cup {track.id} ELSE processed,
                 outcome |-> liked.outcome, called |-> liked.called,
                 attempted |-> TRUE, escapes |-> FALSE, slept |-> TRUE]

\* process_one without the try/except of the loop: an exception out of
\* apply_filters leaves process_tracks.
process_one_uncaught(track, cfg, processed, remote) ==
    LET verdict == apply_filters(track, cfg.filters)
        liked == like_track(track, cfg, remote)
    IN  CASE verdict = "raise" ->
                [processed |-> processed, outcome |-> "raised", called |-> FALSE,
                 attempted |-> FALSE, escapes |-> TRUE, slept |-> FALSE]
          [] verdict = "reject" ->
                [processed |-> IF track.id # NoId THEN processed \cup {track.id}
                               ELSE processed,
                 outcome |-> "filtered", called |-> FALSE, attempted |-> FALSE,
                 escapes |-> FALSE, slept |-> FALSE]
          [] OTHER ->
                [processed |-> IF liked.ret /\ track.id # NoId
                               THEN processed \cup {track.id} ELSE processed,
                 outcome |-> liked.outcome, called |-> liked.called,
                 attempted |-> TRUE, escapes |-> FALSE, slept |-> TRUE]

\* process_one that assigns the identifier where the code adds it.
process_one_assign(track, cfg, processed, remote) ==
    LET verdict == apply_filters(track, cfg.filters)
        liked == like_track(track, cfg, remote)
    IN  CASE verdict = "raise" ->
                [processed |-> processed, outcome |-> "raised", called |-> FALSE,
                 attempted |-> FALSE, escapes |-> FALSE, slept |-> FALSE]
          [] verdict = "reject" ->
                [processed |-> {track.id},
                 outcome |-> "filtered", called |-> FALSE, attempted |-> FALSE,
                 escapes |-> FALSE, slept |-> FALSE]
          [] OTHER ->
                [processed |-> IF liked.ret /\ track.id # NoId
                               THEN {track.id} ELSE processed,
                 outcome |-> liked.outcome, called |-> liked.called,
                 attempted |-> TRUE, escapes |-> FALSE, slept |-> TRUE]

\* One iteration of the loop of process_tracks: the new processed_tracks and
\* what happened to the track (attempted: like_track was called; called: it
\* called client.like_track; slept: the iteration ended with time.sleep(1),
\* which follows the return of like_track and nothing else). An exception out
\* of apply_filters is caught and logged by the loop (escapes: it leaves
\* process_tracks instead).
process_one(track, cfg, processed, remote) ==
    LET verdict == apply_filters(track, cfg.filters)
        liked == like_track(track, cfg, remote)
    IN  CASE verdict = "raise" ->
                [processed |-> processed, outcome |-> "raised", called |-> FALSE,
                 attempted |-> FALSE, escapes |-> FALSE, slept |-> FALSE]
          [] verdict = "reject" ->
                [processed |-> IF track.id # NoId THEN processed \cup {track.id}
                               ELSE processed,
                 outcome |-> "filtered", called |-> FALSE, attempted |-> FALSE, escapes |-> FALSE, slept |-> FALSE]
          [] OTHER ->
                [processed |-> IF liked.ret /\ track.id # NoId
                               THEN processed \cup {track.id} ELSE processed,
                 outcome |-> liked.outcome, called |-> liked.called,
                 attempted |-> TRUE, escapes |-> FALSE, slept |-> TRUE]

\* -------------------------------------------------------------------- state
VARIABLES
    config,           \* self.config, fixed at start
    mode,             \* "once" (run_once from the menu) or "forever" (run)
    pc,               \* where the process is
    now,              \* the wall clock
    processed_tracks, \* self.processed_tracks
    file,             \* processed_tracks.json
    all_tracks,       \* run_once: all_tracks
    artist_ix,        \* position in config['repost_artists']
    unique_tracks,    \* run_once: list(unique_tracks.values())
    track_ix,         \* position of process_tracks in its list
    yielded,          \* raw items the sources have yielded in this cycle
    startProcessed,   \* processed_tracks when the cycle began
    presented,        \* identifiers the sources have presented in this cycle
    eligible,         \* of those: recent, and a repost where that is asked
    log,              \* what process_tracks did in this cycle, per track
    srcLog,           \* the sources queried in this cycle: whether each failed, and
                      \* whether time.sleep(1) ran after it
    flushed,          \* save_processed_tracks has completed in this cycle
    likeCount,        \* successful remote likes per identifier, ever (2: two or more)
    doneRejected,     \* identifiers the filter rejected in a completed cycle
    likeFailed,       \* tracks whose remote like call has failed, ever
    persisted,        \* the identifiers of the last document written completely
    probe,            \* the arguments of a function under test
    verdict           \* its result

vars ==
    <<config, mode, pc, now, processed_tracks, file, all_tracks, artist_ix,
      unique_tracks, track_ix, yielded, startProcessed, presented, eligible,
      log, srcLog, flushed, likeCount, doneRejected, likeFailed, persisted, probe,
      verdict>>

\* What lives for one cycle.
cycleVars ==
    <<all_tracks, artist_ix, unique_tracks, track_ix, yielded, startProcessed,
      presented, eligible, log, srcLog, flushed>>

\* What is recorded about the whole history.
histVars == <<likeCount, doneRejected, likeFailed, persisted>>

probeVars == <<probe, verdict>>

Modes == {"once", "forever"}

NoProbe == [kind |-> "none"]

\* datetime.now() - timedelta(hours=hours_back)
Cutoff == now - config.hours_lookback

\* The identifiers of the usable dicts among ds.
UsableIds(ds) == {d.id : d \in {e \in ds : ~Unusable(e)}}

RecentIds(ds) ==
    {d.id : d \in {e \in ds : ~Unusable(e) /\ is_track_recent(e.created_at, Cutoff)}}

\* The state of the pipeline between cycles.
FreshCycle ==
    /\ all_tracks = <<>>
    /\ artist_ix = 1
    /\ unique_tracks = <<>>
    /\ track_ix = 1
    /\ yielded = 0
    /\ startProcessed = {}
    /\ presented = {}
    /\ eligible = {}
    /\ log = <<>>
    /\ srcLog = <<>>
    /\ flushed = FALSE

\* The pipeline's locals are dropped.
ResetCycle ==
    /\ all_tracks' = <<>>
    /\ artist_ix' = 1
    /\ unique_tracks' = <<>>
    /\ track_ix' = 1
    /\ yielded' = 0
    /\ startProcessed' = {}
    /\ presented' = {}
    /\ eligible' = {}
    /\ log' = <<>>
    /\ srcLog' = <<>>
    /\ flushed' = FALSE

Init ==
    /\ config \in Configs
    /\ mode \in Modes
    /\ pc = "run_once"
    /\ now = 1
    /\ processed_tracks = {}
    /\ file = MissingFile
    /\ FreshCycle
    /\ likeCount = [id \in Ids |-> 0]
    /\ doneRejected = {}
    /\ likeFailed = {}
    /\ persisted = {}
    /\ probe = NoProbe
    /\ verdict = <<>>

\* ------------------------------------------------------------------ actions
\* The name of the activity stream in srcLog (artists go by their identifier).
StreamSrc == 0

\* The artist loop with a break where the except clause has continue.
after_artist_abort(ix, failed, last) == IF failed THEN last + 1 ELSE ix + 1

\* The artist loop after one artist: the except clause ends with continue.
after_artist(ix, failed, last) == ix + 1

\* run_once up to the return of get_new_tracks_from_followings. failed: the
\* resolve or the stream raises, after page has been yielded; the function
\* logs it and returns what it has collected.
FetchNew ==
    /\ pc = "run_once"
    /\ \E page \in IF config.auto_like_new_tracks THEN SeqsUpTo(Pool, MaxItems)
                  ELSE {<<>>},
          failed \in IF config.auto_like_new_tracks THEN BOOLEAN ELSE {FALSE} :
         LET dicts == {get_track_info(Unwrap(page[i])) : i \in 1..Len(page)}
         IN  /\ all_tracks' = new_tracks_of(page, processed_tracks, Cutoff)
             /\ yielded' = Len(page)
             /\ presented' = UsableIds(dicts)
             /\ eligible' = RecentIds(dicts)
             /\ srcLog' = IF config.auto_like_new_tracks
                          THEN <<[src |-> StreamSrc, ok |-> ~failed, slept |-> FALSE]>>
                          ELSE <<>>
    /\ startProcessed' = processed_tracks
    /\ artist_ix' = 1
    /\ unique_tracks' = <<>>
    /\ track_ix' = 1
    /\ log' = <<>>
    /\ flushed' = FALSE
    /\ pc' = "reposts"
    /\ UNCHANGED <<config, mode, now, processed_tracks, file, histVars, probeVars>>

\* One iteration of the artist loop of get_reposts_from_selected_artists.
\* failed: the resolve or the listing raises, after page has been yielded; the
\* loop logs it and goes on with the next artist.
FetchArtist ==
    /\ pc = "reposts"
    /\ config.auto_like_reposts
    /\ artist_ix <= Len(config.repost_artists)
    /\ \E page \in SeqsUpTo(Pool, MaxItems - yielded), use_repost_method \in BOOLEAN,
          failed \in BOOLEAN :
         LET artist_id == config.repost_artists[artist_ix]
             dicts == {get_track_info(IF use_repost_method THEN Unwrap(page[i])
                                      ELSE page[i]) : i \in 1..Len(page)}
             reposts == {d \in dicts : use_repost_method \/ d.uid # artist_id}
         IN  /\ all_tracks' = all_tracks \o
                    repost_tracks_of(page, artist_id, use_repost_method,
                                     processed_tracks, Cutoff)
             /\ yielded' = yielded + Len(page)
             /\ presented' = presented \cup UsableIds(dicts)
             /\ eligible' = eligible \cup RecentIds(reposts)
             /\ srcLog' = Append(srcLog, [src |-> artist_id, ok |-> ~failed,
                                          slept |-> ~failed])
             /\ artist_ix' = after_artist(artist_ix, failed, Len(config.repost_artists))
    /\ UNCHANGED <<config, mode, pc, now, processed_tracks, file, unique_tracks,
                   track_ix, startProcessed, log, flushed, histVars, probeVars>>

\* Dedupe in a repost loop that returns after its first artist.
Dedupe_early ==
    /\ pc = "reposts"
    /\ ~config.auto_like_reposts \/ artist_ix > 1
    /\ unique_tracks' = unique_tracks_of(all_tracks, {})
    /\ track_ix' = 1
    /\ pc' = IF unique_tracks' # <<>> THEN "acting" ELSE "cycle_end"
    /\ UNCHANGED <<config, mode, now, processed_tracks, file, all_tracks, artist_ix,
                   yielded, startProcessed, presented, eligible, log, srcLog,
                   flushed, histVars, probeVars>>

\* run_once after the fetches: the dedup loop, and the branch on its result.
Dedupe ==
    /\ pc = "reposts"
    /\ ~config.auto_like_reposts \/ artist_ix > Len(config.repost_artists)
    /\ unique_tracks' = unique_tracks_of(all_tracks, {})
    /\ track_ix' = 1
    /\ pc' = IF unique_tracks' # <<>> THEN "acting" ELSE "cycle_end"
    /\ UNCHANGED <<config, mode, now, processed_tracks, file, all_tracks, artist_ix,
                   yielded, startProcessed, presented, eligible, log, srcLog,
                   flushed, histVars, probeVars>>

\* One iteration of the loop of process_tracks.
ProcessTrack ==
    /\ pc = "acting"
    /\ track_ix <= Len(unique_tracks)
    /\ \E remote \in {"ok", "error"} :
         LET track == unique_tracks[track_ix]
             r == process_one(track, config, processed_tracks, remote)
         IN  /\ processed_tracks' = r.processed
             /\ log' = Append(log, [track |-> track, outcome |-> r.outcome,
                                    called |-> r.called, attempted |-> r.attempted,
                                    slept |-> r.slept])
             /\ likeCount' =
                    IF r.outcome = "liked"
                    THEN [likeCount EXCEPT ![track.id] = IF @ = 0 THEN 1 ELSE 2]
                    ELSE likeCount
             /\ likeFailed' =
                    IF r.outcome = "like_error" THEN likeFailed \cup {track}
                    ELSE likeFailed
             /\ pc' = IF r.escapes THEN "crashed" ELSE pc
    /\ track_ix' = track_ix + 1
    /\ UNCHANGED <<config, mode, now, file, all_tracks, artist_ix, unique_tracks,
                   yielded, startProcessed, presented, eligible, srcLog, flushed,
                   doneRejected, persisted, probeVars>>

\* save_processed_tracks, first step: open(..., 'w') truncates the file.
SaveOpen ==
    /\ pc = "acting"
    /\ track_ix > Len(unique_tracks)
    /\ file' = EmptyFile
    /\ pc' = "saving"
    /\ UNCHANGED <<config, mode, now, processed_tracks, cycleVars, histVars, probeVars>>

\* save_processed_tracks: the buffer is flushed while json.dump is writing.
SaveFlush ==
    /\ pc = "saving"
    /\ file = EmptyFile
    /\ file' = PartialFile
    /\ UNCHANGED <<config, mode, pc, now, processed_tracks, cycleVars, histVars,
                   probeVars>>

\* save_processed_tracks, last step: the document is complete, the file closed.
SaveClose ==
    /\ pc = "saving"
    /\ file' = CompleteFile(processed_tracks)
    /\ flushed' = TRUE
    /\ persisted' = processed_tracks
    /\ pc' = "cycle_end"
    /\ UNCHANGED <<config, mode, now, processed_tracks, all_tracks, artist_ix,
                   unique_tracks, track_ix, yielded, startProcessed, presented,
                   eligible, log, srcLog, likeCount, doneRejected, likeFailed,
                   probeVars>>

\* SaveFail in a run that catches the exception and goes on to sleep.
SaveFail_retry ==
    /\ \/ pc = "acting" /\ track_ix > Len(unique_tracks)
       \/ pc = "saving"
    /\ pc' = "sleeping"
    /\ ResetCycle
    /\ UNCHANGED <<config, mode, now, processed_tracks, file, histVars, probeVars>>

\* save_processed_tracks raises (the disk is full, the file may not be
\* written): open has failed and the file is as it was, or a write has failed
\* and the file is as far as it got. Nothing in run_once catches it; run logs
\* it and raises it again, and the process ends.
SaveFail ==
    /\ \/ pc = "acting" /\ track_ix > Len(unique_tracks)
       \/ pc = "saving"
    /\ pc' = "crashed"
    /\ ResetCycle
    /\ UNCHANGED <<config, mode, now, processed_tracks, file, histVars, probeVars>>

\* EndCycle in a run that calls run_once again without sleeping.
EndCycle_nosleep ==
    /\ pc = "cycle_end"
    /\ pc' = IF mode = "once" THEN "exited" ELSE "run_once"
    /\ doneRejected' = doneRejected \cup
          {log[i].track.id : i \in {j \in 1..Len(log) : log[j].outcome = "filtered"}}
    /\ ResetCycle
    /\ UNCHANGED <<config, mode, now, processed_tracks, file, likeCount,
                   likeFailed, persisted, probeVars>>

\* run_once returns, its locals are dropped: main returns (once) or run goes
\* to sleep (forever).
EndCycle ==
    /\ pc = "cycle_end"
    /\ pc' = IF mode = "once" THEN "exited" ELSE "sleeping"
    /\ doneRejected' = doneRejected \cup
          {log[i].track.id : i \in {j \in 1..Len(log) : log[j].outcome = "filtered"}}
    /\ ResetCycle
    /\ UNCHANGED <<config, mode, now, processed_tracks, file, likeCount,
                   likeFailed, persisted, probeVars>>

\* run: time.sleep(wait_seconds) returns and the loop calls run_once again.
Wake ==
    /\ pc = "sleeping"
    /\ pc' = "run_once"
    /\ UNCHANGED <<config, mode, now, processed_tracks, file, cycleVars, histVars,
                   probeVars>>

\* Time passes while the process sleeps or is not running.
Tick ==
    /\ pc \in {"sleeping", "exited", "killed"}
    /\ now < MaxNow
    /\ now' = now + 1
    /\ UNCHANGED <<config, mode, pc, processed_tracks, file, cycleVars, histVars,
                   probeVars>>

\* The process is killed: everything it held in memory is gone.
Kill ==
    /\ pc \in {"run_once", "reposts", "acting", "saving", "cycle_end", "sleeping"}
    /\ pc' = "killed"
    /\ processed_tracks' = {}
    /\ ResetCycle
    /\ UNCHANGED <<config, mode, now, file, histVars, probeVars>>

\* KeyboardInterrupt is raised in the main thread, wherever it is: no except
\* clause below run catches it (except Exception does not), a with block the
\* process is in closes the file as far as it is written, run logs the stop
\* and returns. processed_tracks stays as the process held it when it stopped.
Interrupt ==
    /\ pc \in {"run_once", "reposts", "acting", "saving", "cycle_end", "sleeping"}
    /\ pc' = "stopped"
    /\ ResetCycle
    /\ UNCHANGED <<config, mode, now, processed_tracks, file, histVars, probeVars>>

\* A new process: __init__ loads the state file, main starts the chosen mode.
\* A file json.load cannot read ends the process before it has started.
Start ==
    /\ pc \in {"exited", "killed"}
    /\ LET loaded == load_processed_tracks(file)
       IN  /\ processed_tracks' = loaded.ids
           /\ pc' = IF loaded.ok THEN "run_once" ELSE "load_failed"
    /\ mode' \in Modes
    /\ ResetCycle
    /\ UNCHANGED <<config, now, file, histVars, probeVars>>

Next ==
    \/ FetchNew
    \/ FetchArtist
    \/ Dedupe
    \/ ProcessTrack
    \/ SaveOpen
    \/ SaveFlush
    \/ SaveClose
    \/ SaveFail
    \/ EndCycle
    \/ Wake
    \/ Tick
    \/ Start

\* The process runs its cycles, exits and is started again; nobody kills it.
Spec == Init /\ [][Next]_vars

NextCrash ==
    \/ Next
    \/ Kill

\* As Spec, and the process may be killed at any point.
SpecCrash == Init /\ [][NextCrash]_vars

NextInterrupt ==
    \/ Next
    \/ Interrupt

\* As Spec, and the user may interrupt the process at any point.
SpecInterrupt == Init /\ [][NextInterrupt]_vars

\* A process started in single-cycle mode: the state file is absent or is the
\* document an earlier process has written, and __init__ has loaded it.
InitOnce ==
    /\ config \in Configs
    /\ mode = "once"
    /\ pc = "run_once"
    /\ now = 1
    /\ file \in {MissingFile} \cup {CompleteFile(S) : S \in {{}, {1}, {2, 3}}}
    /\ processed_tracks = load_processed_tracks(file).ids
    /\ FreshCycle
    /\ likeCount = [id \in Ids |-> 0]
    /\ doneRejected = {}
    /\ likeFailed = {}
    /\ persisted = file.ids
    /\ probe = NoProbe
    /\ verdict = <<>>

\* The steps of the one call of run_once that main makes in this mode.
NextOnce ==
    \/ FetchNew
    \/ FetchArtist
    \/ Dedupe
    \/ ProcessTrack
    \/ SaveOpen
    \/ SaveFlush
    \/ SaveClose
    \/ SaveFail
    \/ EndCycle

\* One process in single-cycle mode. The program is sequential and every
\* remote call returns or raises: while it has a next step, it takes one.
SpecOnce == InitOnce /\ [][NextOnce]_vars /\ WF_vars(NextOnce)

\* ------------------------------------------------------------ diagnostics
\* Choices 3 and 4 of the menu of main.
DiagModes == {"followings", "user_reposts"}

\* A process started for a diagnostic query.
InitDiag ==
    /\ config \in Configs
    /\ mode \in DiagModes
    /\ pc = "diag"
    /\ now = 1
    /\ file \in {MissingFile} \cup {CompleteFile(S) : S \in {{}, {1}, {2, 3}}}
    /\ processed_tracks = load_processed_tracks(file).ids
    /\ FreshCycle
    /\ likeCount = [id \in Ids |-> 0]
    /\ doneRejected = {}
    /\ likeFailed = {}
    /\ persisted = file.ids
    /\ probe = NoProbe
    /\ verdict = <<>>

\* test_show_followings: it logs the followings it could list (none when the
\* username is not set, the resolve raises or no method works) and returns.
TestShowFollowings ==
    /\ pc = "diag"
    /\ mode = "followings"
    /\ \E shown \in 0..MaxItems : verdict' = <<[followings |-> shown]>>
    /\ pc' = "exited"
    /\ UNCHANGED <<probe, config, mode, now, processed_tracks, file, cycleVars, histVars>>

\* test_show_user_reposts that marks the tracks it lists.
TestShowUserReposts_marks ==
    /\ pc = "diag"
    /\ mode = "user_reposts"
    /\ \E page \in SeqsUpTo(Pool, MaxItems) :
         /\ verdict' = <<[shown |-> [i \in 1..Len(page) |->
                                        get_track_info(Unwrap(page[i]))]]>>
         /\ yielded' = Len(page)
         /\ processed_tracks' = processed_tracks \cup
                UsableIds({get_track_info(Unwrap(page[i])) : i \in 1..Len(page)})
    /\ all_tracks' = <<>>
    /\ artist_ix' = 1
    /\ pc' = "diag_tail"
    /\ UNCHANGED <<probe, config, mode, now, file, unique_tracks, track_ix,
                   startProcessed, presented, eligible, log, srcLog, flushed, histVars>>

\* test_show_user_reposts up to the end of its try statement: it logs the
\* dict of every item the repost listing yields before it ends or raises.
TestShowUserReposts ==
    /\ pc = "diag"
    /\ mode = "user_reposts"
    /\ \E page \in SeqsUpTo(Pool, MaxItems) :
         /\ verdict' = <<[shown |-> [i \in 1..Len(page) |->
                                        get_track_info(Unwrap(page[i]))]]>>
         /\ yielded' = Len(page)
    /\ all_tracks' = <<>>
    /\ artist_ix' = 1
    /\ pc' = "diag_tail"
    /\ UNCHANGED <<probe, config, mode, now, processed_tracks, file, unique_tracks,
                   track_ix, startProcessed, presented, eligible, log, srcLog,
                   flushed, histVars>>

\* The statements that follow the try statement of test_show_user_reposts (a
\* copy of the body of get_reposts_from_selected_artists): one iteration of
\* the artist loop, which reads processed_tracks and fills a local list.
DiagTailArtist ==
    /\ pc = "diag_tail"
    /\ config.auto_like_reposts
    /\ artist_ix <= Len(config.repost_artists)
    /\ \E page \in SeqsUpTo(Pool, MaxItems - yielded), use_repost_method \in BOOLEAN,
          failed \in BOOLEAN :
         /\ all_tracks' = all_tracks \o
                repost_tracks_of(page, config.repost_artists[artist_ix],
                                 use_repost_method, processed_tracks, Cutoff)
         /\ yielded' = yielded + Len(page)
         /\ artist_ix' = after_artist(artist_ix, failed, Len(config.repost_artists))
    /\ UNCHANGED <<probeVars, config, mode, pc, now, processed_tracks, file,
                   unique_tracks, track_ix, startProcessed, presented, eligible, log,
                   srcLog, flushed, histVars>>

\* The copy returns its list, which main drops.
DiagReturn ==
    /\ pc = "diag_tail"
    /\ ~config.auto_like_reposts \/ artist_ix > Len(config.repost_artists)
    /\ pc' = "exited"
    /\ ResetCycle
    /\ UNCHANGED <<probeVars, config, mode, now, processed_tracks, file, histVars>>

NextDiag ==
    \/ TestShowFollowings
    \/ TestShowUserReposts
    \/ DiagTailArtist
    \/ DiagReturn

\* One process that answers a diagnostic query.
SpecDiag == InitDiag /\ [][NextDiag]_vars

\* ------------------------------------------------- the functions on their own
Suffixes == {"", "Z", "+00:00", "+01:00"}

Stamps == {NoTs, BadTs} \cup {Iso(w, sfx) : w \in 0..MaxWall, sfx \in Suffixes}

RecentProbes ==
    [kind : {"recent"}, created_at : Stamps, cutoff_time : 0..MaxWall]

FilterProbes ==
    [kind : {"filter"},
     track : {Item("dict", 1, NoTs, d, g, l, 9) :
                 d \in {0, 1500, 2000, 4000, 4001},
                 g \in {"", "rock", "POP", NoneGenre},
                 l \in {0, 5}},
     filters : [min_duration_seconds : {0, 2}, max_duration_seconds : {0, 4},
                genres : {<<>>, <<"Rock", "pop">>}, min_likes : {0, 1}]]

\* The pipeline stands still while a function is tried.
Idle ==
    /\ config = Config(TRUE, FALSE, TRUE, TRUE, <<7>>, DefaultFilters)
    /\ mode = "once"
    /\ pc = "exited"
    /\ now = 1
    /\ processed_tracks = {}
    /\ file = MissingFile
    /\ FreshCycle
    /\ likeCount = [id \in Ids |-> 0]
    /\ doneRejected = {}
    /\ likeFailed = {}
    /\ persisted = {}

pipelineVars ==
    <<config, mode, pc, now, processed_tracks, file, cycleVars, histVars>>

InitRecent ==
    /\ Idle
    /\ probe \in RecentProbes
    /\ verdict = <<>>

\* is_track_recent is called on the probe.
CallRecent ==
    /\ probe.kind = "recent"
    /\ verdict = <<>>
    /\ verdict' = <<is_track_recent(probe.created_at, probe.cutoff_time)>>
    /\ UNCHANGED <<probe, pipelineVars>>

SpecRecent == InitRecent /\ [][CallRecent]_vars

InitFilters ==
    /\ Idle
    /\ probe \in FilterProbes
    /\ verdict = <<>>

\* apply_filters is called on the probe.
CallFilters ==
    /\ probe.kind = "filter"
    /\ verdict = <<>>
    /\ verdict' = <<apply_filters(probe.track, probe.filters)>>
    /\ UNCHANGED <<probe, pipelineVars>>

SpecFilters == InitFilters /\ [][CallFilters]_vars

\* What the state file can hold when a process starts: what the program
\* leaves there, and documents damaged or written by something else.
LoadProbes ==
    [kind : {"load"},
     file : {MissingFile, EmptyFile, PartialFile}
            \cup {CompleteFile(S) : S \in SUBSET (1..MaxFileId)}
            \cup {ForeignFile(S) : S \in SUBSET (1..MaxFileId)}
            \cup {ListFile(S) : S \in SUBSET (1..MaxFileId)}]

InitLoad ==
    /\ Idle
    /\ probe \in LoadProbes
    /\ verdict = <<>>

\* load_processed_tracks is called on the probe.
CallLoad ==
    /\ probe.kind = "load"
    /\ verdict = <<>>
    /\ verdict' = <<load_processed_tracks(probe.file)>>
    /\ UNCHANGED <<probe, pipelineVars>>

SpecLoad == InitLoad /\ [][CallLoad]_vars

\* A track the queried artist 7 has published itself, as get_user_tracks
\* lists it.
OwnUpload == Item("bare", 3, NoTs, 3000, "rock", 5, 7)

\* One page of raw items handed to both fetch loops.
ExtractProbes ==
    [kind : {"extract"}, items : SeqsUpTo(Pool \cup {OwnUpload}, MaxItems),
     processed : {{}, {1}}, use_repost_method : BOOLEAN, cutoff_time : {0, 1}]

InitExtract ==
    /\ Idle
    /\ probe \in ExtractProbes
    /\ verdict = <<>>

\* The loops of get_new_tracks_from_followings and of
\* get_reposts_from_selected_artists (artist 7) run over the probe's items.
CallExtract ==
    /\ probe.kind = "extract"
    /\ verdict = <<>>
    /\ verdict' = <<[new |-> new_tracks_of(probe.items, probe.processed,
                                           probe.cutoff_time),
                     reposts |-> repost_tracks_of(probe.items, 7,
                                                  probe.use_repost_method,
                                                  probe.processed,
                                                  probe.cutoff_time)]>>
    /\ UNCHANGED <<probe, pipelineVars>>

SpecExtract == InitExtract /\ [][CallExtract]_vars

RECURSIVE process_all(_, _, _, _)
\* The loop of process_tracks over a whole batch, every remote call having
\* the outcome remote: the final processed_tracks and what happened per track.
process_all(tracks, cfg, processed, remote) ==
    IF tracks = <<>> THEN [processed |-> processed, log |-> <<>>]
    ELSE LET r == process_one(Head(tracks), cfg, processed, remote)
             entry == [track |-> Head(tracks), outcome |-> r.outcome,
                       called |-> r.called, attempted |-> r.attempted]
             rest == process_all(Tail(tracks), cfg, r.processed, remote)
         IN  IF r.escapes THEN [processed |-> r.processed, log |-> <<entry>>]
             ELSE [processed |-> rest.processed, log |-> <<entry>> \o rest.log]

\* run_once as a function of what the sources yield: stream from the
\* activity stream, page from the first repost artist (the other artists
\* yield nothing); the batch, the final processed_tracks and the log.
run_cycle(stream, page, use_repost_method, cfg, processed, cutoff_time, remote) ==
    LET new_tracks == IF cfg.auto_like_new_tracks
                      THEN new_tracks_of(stream, processed, cutoff_time)
                      ELSE <<>>
        repost_tracks == IF cfg.auto_like_reposts /\ cfg.repost_artists # <<>>
                         THEN repost_tracks_of(page, cfg.repost_artists[1],
                                               use_repost_method, processed,
                                               cutoff_time)
                         ELSE <<>>
        batch == unique_tracks_of(new_tracks \o repost_tracks, {})
        done == process_all(batch, cfg, processed, remote)
    IN  [batch |-> batch, processed |-> done.processed, log |-> done.log]

\* What the sources yield to two cycles in a row, and the cutoffs and the
\* outcome of the remote calls of each.
CycleProbes ==
    {pr \in [kind : {"cycle"}, stream : SeqsUpTo(Pool, MaxItems),
             page : SeqsUpTo(Pool, MaxItems), use_repost_method : BOOLEAN,
             cfg : Configs, processed : {{}, {1}}, cutoff1 : {0, 1},
             cutoff2 : {0, 1}, remote1 : {"ok", "error"}, remote2 : {"ok", "error"}] :
        /\ Len(pr.stream) + Len(pr.page) <= MaxItems
        /\ pr.cutoff1 <= pr.cutoff2}

InitCycle ==
    /\ Idle
    /\ probe \in CycleProbes
    /\ verdict = <<>>

\* run_once is called twice on the probe's source output, the second call
\* starting with the processed_tracks the first has left.
CallCycleTwice ==
    /\ probe.kind = "cycle"
    /\ verdict = <<>>
    /\ LET first == run_cycle(probe.stream, probe.page, probe.use_repost_method,
                              probe.cfg, probe.processed, probe.cutoff1,
                              probe.remote1)
           second == run_cycle(probe.stream, probe.page, probe.use_repost_method,
                               probe.cfg, first.processed, probe.cutoff2,
                               probe.remote2)
       IN  verdict' = <<[first |-> first, second |-> second]>>
    /\ UNCHANGED <<probe, pipelineVars>>

SpecCycle == InitCycle /\ [][CallCycleTwice]_vars

\* ------------------------------------------------------------------- claims
\* The positions of the log at which like_track was called.
Attempts == {i \in 1..Len(log) : log[i].attempted}

\* The positions of the log that are about identifier id.
EntriesOf(id) == {i \in 1..Len(log) : log[i].track.id = id}

\* process_tracks has gone through its whole list.
ActingDone == pc \in {"saving", "cycle_end"}

\* The first track of tracks with identifier id.
FirstOcc(tracks, id) ==
    tracks[CHOOSE i \in 1..Len(tracks) :
              /\ tracks[i].id = id
              /\ \A j \in 1..(i - 1) : tracks[j].id # id]

\* The identifiers is_track_recent was called for in this cycle: the fetch
\* loops call it for every usable dict, before they look at processed_tracks.
RecencyChecked == presented

\* The sources run_once queries, in order: the stream, then the artists.
EnabledSources ==
    (IF config.auto_like_new_tracks THEN <<StreamSrc>> ELSE <<>>)
    \o (IF config.auto_like_reposts THEN config.repost_artists ELSE <<>>)

\* The items of a page from which get_track_info gets a dict with an id.
UsableItems(items, unwrap) ==
    SelectSeq(items, LAMBDA it :
        ~Unusable(get_track_info(IF unwrap THEN Unwrap(it) ELSE it)))

\* A dict's created_at, if it is a timestamp, reads later than the cutoff.
InWindow(d, cutoff_time) ==
    d.created_at.kind = "iso" => d.created_at.wall > cutoff_time

\* The usable dicts the enabled paths get out of a cycle probe's source
\* output (on the repost path: those that count as reposts).
Offered(pr) ==
    LET streamDicts ==
            IF pr.cfg.auto_like_new_tracks
            THEN {get_track_info(Unwrap(pr.stream[i])) : i \in 1..Len(pr.stream)}
            ELSE {}
        pageDicts ==
            IF pr.cfg.auto_like_reposts
            THEN {d \in {get_track_info(IF pr.use_repost_method
                                        THEN Unwrap(pr.page[i]) ELSE pr.page[i]) :
                             i \in 1..Len(pr.page)} :
                     pr.use_repost_method \/ d.uid # pr.cfg.repost_artists[1]}
            ELSE {}
    IN  {d \in streamDicts \cup pageDicts : ~Unusable(d)}

\* The identifiers the fetch paths returned more than once in this cycle.
DupIds ==
    {id \in Ids : Cardinality({i \in 1..Len(all_tracks) : all_tracks[i].id = id}) >= 2}

\* C1: over all cycles, kills and restarts, no identifier receives a
\* successful remote like more than once.
C1_LikedAtMostOnce == \A id \in Ids : likeCount[id] <= 1

\* C2: a cycle calls like_track for no track whose identifier was in
\* processed_tracks when the cycle began, and a cycle in which the sources
\* presented only such tracks ends with processed_tracks unchanged.
C2_ProcessedNotActedOn ==
    /\ \A i \in Attempts : log[i].track.id \notin startProcessed
    /\ (pc = "cycle_end" /\ presented \subseteq startProcessed)
          => processed_tracks = startProcessed

\* A cycle has ended in which the sources presented tracks, all of them
\* already processed.
C2_Witness ==
    /\ pc = "cycle_end"
    /\ presented # {}
    /\ presented \subseteq startProcessed

\* C3 as claimed: an identifier the paths returned more than once gets exactly
\* one like_track call in the cycle, made on its first occurrence.
C3_ExactlyOneAttempt ==
    ActingDone =>
        \A id \in DupIds :
            /\ Cardinality(Attempts \cap EntriesOf(id)) = 1
            /\ \A i \in Attempts \cap EntriesOf(id) :
                   log[i].track = FirstOcc(all_tracks, id)

\* C3 as amended: an identifier the paths returned more than once is handled
\* exactly once in the cycle, on its first occurrence in query order, and
\* like_track is called for it exactly when that record passes the filter.
C3_OneEvaluationOfFirst ==
    ActingDone =>
        \A id \in DupIds :
            /\ Cardinality(EntriesOf(id)) = 1
            /\ \A i \in EntriesOf(id) :
                   /\ log[i].track = FirstOcc(all_tracks, id)
                   /\ log[i].attempted
                        <=> apply_filters(FirstOcc(all_tracks, id), config.filters) = "pass"

\* Two different records of one identifier were returned and the first one
\* was acted on.
C3_Witness ==
    /\ pc = "cycle_end"
    /\ \E id \in DupIds :
         /\ \E i, j \in 1..Len(all_tracks) :
               /\ all_tracks[i].id = id
               /\ all_tracks[j].id = id
               /\ all_tracks[i] # all_tracks[j]
         /\ \E i \in Attempts : log[i].track.id = id

C6_RejectedIsFinal ==
    /\ pc = "cycle_end" =>
          \A i \in 1..Len(log) :
              log[i].outcome = "filtered" =>
                  /\ log[i].track.id \in processed_tracks
                  /\ Attempts \cap EntriesOf(log[i].track.id) = {}
    /\ pc \in {"acting", "saving", "cycle_end"} =>
          \A i \in 1..Len(unique_tracks) : unique_tracks[i].id \notin doneRejected

\* A cycle has ended whose sources presented a track that an earlier cycle
\* rejected.
C6_Witness ==
    /\ pc = "cycle_end"
    /\ presented \cap doneRejected # {}

\* C7 as claimed: at the end of a cycle a batch track is outside
\* processed_tracks only if its remote like call failed.
C7_OnlyFailedCallsUnmarked ==
    pc = "cycle_end" =>
        \A i \in 1..Len(log) :
            log[i].track.id \notin processed_tracks => log[i].outcome = "like_error"

\* C7 as amended: at the end of a cycle the batch tracks outside
\* processed_tracks are exactly those for which like_track returned False in
\* execute mode (the remote call failed, or there is no auth_token and no call
\* was made) and those on which apply_filters raised.
C7_UnmarkedExactly ==
    pc = "cycle_end" =>
        /\ unique_tracks # <<>> => Len(log) = Len(unique_tracks)
        /\ \A i \in 1..Len(log) :
              /\ log[i].track = unique_tracks[i]
              /\ log[i].track.id \notin processed_tracks
                    <=> log[i].outcome \in {"like_error", "no_auth", "raised"}
              /\ log[i].outcome \in {"like_error", "no_auth"} => ~config.dry_run

\* A cycle in execute mode without auth_token has ended: a track that passed
\* the filter is unmarked though no remote call was made.
C7_Witness ==
    /\ pc = "cycle_end"
    /\ \E i \in 1..Len(log) :
          /\ log[i].outcome = "no_auth"
          /\ log[i].track.id \notin processed_tracks

\* C8: is_track_recent is true iff created_at is absent, or is no ISO
\* timestamp, or its wall-clock reading (the zone dropped) is strictly later
\* than the cutoff.
C8_RecentIffStrictlyLater ==
    (probe.kind = "recent" /\ verdict # <<>>) =>
        verdict[1] = (\/ probe.created_at.kind = "absent"
                      \/ probe.created_at.kind = "garbage"
                      \/ probe.created_at.wall > probe.cutoff_time)

\* A timestamp written with Z that equals the cutoff was judged not recent.
C8_Witness ==
    /\ probe.kind = "recent"
    /\ probe.created_at.kind = "iso"
    /\ probe.created_at.sfx = "Z"
    /\ probe.created_at.wall = probe.cutoff_time
    /\ verdict = <<FALSE>>

\* C9: with both duration bounds 0, no genres and min_likes 0, apply_filters
\* admits every track, whatever its duration, category and popularity.
C9_ZeroDisables ==
    (probe.kind = "filter" /\ verdict # <<>> /\ probe.filters = DefaultFilters)
        => verdict = <<"pass">>

\* C10: after a kill the state file is the complete document of some
\* processed set (or still absent): never empty, never a fragment.
C10_FileIntactAfterKill ==
    pc = "killed" => file.state \in {"missing", "complete"}

\* C11: load_processed_tracks yields the empty set when the file is missing,
\* and raises whenever the file exists and is not the complete document with
\* its identifier list; a damaged file never becomes a set without an error.
C11_DamagedFileFails ==
    (probe.kind = "load" /\ verdict # <<>>) =>
        /\ probe.file.state = "missing" => verdict[1] = [ok |-> TRUE, ids |-> {}]
        /\ probe.file.state \notin {"missing", "complete"} => ~verdict[1].ok

\* C12: while a process lives no step removes an identifier from
\* processed_tracks, and every completed save writes a superset of the
\* identifiers of the document written before it.
C12_ProcessedGrows ==
    [][/\ (pc \notin {"exited", "killed"} /\ pc' # "killed")
             => processed_tracks \subseteq processed_tracks'
       /\ (file' # file /\ file'.state = "complete") => persisted \subseteq file'.ids]_vars

\* A second save has written more identifiers than the process started the
\* cycle with.
C12_Witness ==
    /\ pc = "cycle_end"
    /\ flushed
    /\ startProcessed # {}
    /\ startProcessed # processed_tracks
    /\ startProcessed \subseteq file.ids

\* C13 as claimed: every cycle that ends has rewritten the state file with
\* processed_tracks, a cycle with an empty batch included.
C13_EveryCycleRewrites ==
    pc = "cycle_end" => flushed /\ file = CompleteFile(processed_tracks)

\* C13 as amended: a cycle that ends has rewritten the state file with
\* processed_tracks exactly when its batch was not empty (also when every
\* like failed); a cycle with an empty batch leaves the file untouched and
\* processed_tracks as it was, so a load of the file still gives
\* processed_tracks.
C13_NonEmptyBatchRewrites ==
    pc = "cycle_end" =>
        /\ flushed <=> unique_tracks # <<>>
        /\ flushed => file = CompleteFile(processed_tracks)
        /\ ~flushed => processed_tracks = startProcessed
        /\ load_processed_tracks(file) = [ok |-> TRUE, ids |-> processed_tracks]

\* A cycle in which every like failed has ended with the file rewritten.
C13_Witness ==
    /\ pc = "cycle_end"
    /\ flushed
    /\ log # <<>>
    /\ \A i \in 1..Len(log) : log[i].outcome = "like_error"

\* C14 as claimed: in a cycle none of is_track_recent, apply_filters and
\* like_track is called for an identifier that was in processed_tracks when
\* the cycle began.
C14_NeverReevaluated ==
    /\ RecencyChecked \cap startProcessed = {}
    /\ \A i \in 1..Len(log) : log[i].track.id \notin startProcessed

\* C14 as amended: in a cycle neither apply_filters nor like_track is called
\* for an identifier that was in processed_tracks when the cycle began or that
\* the cycle has handled already (is_track_recent is called for it, and its
\* result is not used).
C14_NoFilterNoLikeAgain ==
    /\ \A i \in 1..Len(unique_tracks) : unique_tracks[i].id \notin startProcessed
    /\ \A i \in 1..Len(log) :
          /\ log[i].track.id \notin startProcessed
          /\ \A j \in 1..Len(log) : log[j].track.id = log[i].track.id => j = i

\* A cycle has ended in which the recency check ran on a processed track and
\* other tracks were handled.
C14_Witness ==
    /\ pc = "cycle_end"
    /\ RecencyChecked \cap startProcessed # {}
    /\ log # <<>>

\* C15: whichever sources fail, a cycle queries every configured source, in
\* order; every track the sources returned is in the batch, the whole batch
\* is handled, and a batch that is not empty is followed by the save.
C15_FailedSourceSkipped ==
    pc \in {"acting", "saving", "cycle_end"} =>
        /\ [i \in 1..Len(srcLog) |-> srcLog[i].src] = EnabledSources
        /\ \A i \in 1..Len(all_tracks) :
              \E j \in 1..Len(unique_tracks) : unique_tracks[j].id = all_tracks[i].id
        /\ ActingDone =>
              /\ Len(log) = Len(unique_tracks)
              /\ \A i \in 1..Len(log) : log[i].track = unique_tracks[i]
        /\ (pc = "cycle_end" /\ unique_tracks # <<>>) =>
              flushed /\ file = CompleteFile(processed_tracks)

\* A cycle has ended in which a source failed, a later source answered, and a
\* track was acted on and the state saved.
C15_Witness ==
    /\ pc = "cycle_end"
    /\ flushed
    /\ \E i, j \in 1..Len(srcLog) : i < j /\ ~srcLog[i].ok /\ srcLog[j].ok
    /\ \E k \in 1..Len(log) : log[k].attempted

\* C16: both fetch loops return for a page what they return for the page
\* without its unusable items (no id, or extraction failed), and return no
\* unusable dict.
C16_UnusableSkipped ==
    (probe.kind = "extract" /\ verdict # <<>>) =>
        /\ verdict[1].new =
              new_tracks_of(UsableItems(probe.items, TRUE), probe.processed,
                            probe.cutoff_time)
        /\ verdict[1].reposts =
              repost_tracks_of(UsableItems(probe.items, probe.use_repost_method), 7,
                               probe.use_repost_method, probe.processed,
                               probe.cutoff_time)
        /\ \A i \in 1..Len(verdict[1].new) : ~Unusable(verdict[1].new[i])
        /\ \A i \in 1..Len(verdict[1].reposts) : ~Unusable(verdict[1].reposts[i])

\* A page of an unusable item followed by a usable one gave one track.
C16_Witness ==
    /\ probe.kind = "extract"
    /\ verdict # <<>>
    /\ Len(probe.items) = 2
    /\ Unusable(get_track_info(Unwrap(probe.items[1])))
    /\ Len(verdict[1].new) = 1

\* C17 as claimed: in perpetual mode no error ends the loop.
C17_ErrorNeverEndsLoop == mode = "forever" => pc # "crashed"

\* C17 as amended: in perpetual mode an error while a source is fetched, a
\* track is filtered or a track is liked does not end the loop: the fetches
\* and the batch run on to the end of the cycle, after which the scheduler
\* sleeps and then starts the next cycle. (An error of the save ends it.)
C17_CaughtErrorsKeepLoop ==
    [][mode = "forever" =>
          /\ pc = "run_once" => pc' \in {"run_once", "reposts"}
          /\ pc = "reposts" => pc' \in {"reposts", "acting", "cycle_end"}
          /\ (pc = "acting" /\ track_ix <= Len(unique_tracks)) => pc' = "acting"
          /\ pc = "cycle_end" => pc' \in {"cycle_end", "sleeping"}
          /\ pc = "sleeping" => pc' \in {"sleeping", "run_once"}]_vars

\* In perpetual mode a cycle has reached its end although a source failed, a
\* filter raised and a like failed.
C17_Witness ==
    /\ mode = "forever"
    /\ pc = "cycle_end"
    /\ \E i \in 1..Len(srcLog) : ~srcLog[i].ok
    /\ \E i \in 1..Len(log) : log[i].outcome = "raised"
    /\ \E i \in 1..Len(log) : log[i].outcome = "like_error"

\* C18 as claimed: when an error has ended the perpetual loop, the state file
\* holds processed_tracks as the cycle left it.
C18_HaltedAfterFlush ==
    (mode = "forever" /\ pc = "crashed") => file = CompleteFile(processed_tracks)

\* C18 as amended: in perpetual mode the batch and the save are left only
\* for the end of the cycle or, on an error, for the halt; the halt leaves
\* file and processed_tracks as the error found them, the file being the one
\* written before the cycle, or empty, or a fragment; and nothing follows a
\* halt.
C18_HaltsUnflushed ==
    [][mode = "forever" =>
          /\ (pc \in {"acting", "saving"} /\ pc' \notin {"acting", "saving", "cycle_end"})
                => /\ pc' = "crashed"
                   /\ file' = file
                   /\ processed_tracks' = processed_tracks
                   /\ file \in {MissingFile, EmptyFile, PartialFile,
                                CompleteFile(persisted)}
          /\ pc = "crashed" => pc' = "crashed"]_vars

\* The perpetual loop has halted on a failed save, and an identifier marked
\* in memory is not in the state file.
C18_Witness ==
    /\ mode = "forever"
    /\ pc = "crashed"
    /\ ~(processed_tracks \subseteq file.ids)

\* C19: when an interrupt has stopped the process, the state file is a
\* complete document (or still absent) and holds every identifier of
\* processed_tracks.
C19_StoppedMeansFlushed ==
    pc = "stopped" =>
        /\ file.state \in {"missing", "complete"}
        /\ processed_tracks \subseteq file.ids

\* C20: a process begins to fetch only at the top of run_once; it comes to
\* the top of run_once only out of the sleep (or as a new process); it goes
\* to sleep only from the end of a cycle; and a cycle ends only when its save
\* has completed or its batch was empty.
C20_OneCycleAtATime ==
    [][/\ (pc' = "reposts" /\ pc # "reposts") => pc = "run_once"
       /\ (pc' = "run_once" /\ pc # "run_once") => pc \in {"sleeping", "exited", "killed"}
       /\ (pc' = "sleeping" /\ pc # "sleeping") => pc = "cycle_end"
       /\ (pc' = "cycle_end" /\ pc # "cycle_end") =>
             \/ pc = "saving" /\ flushed'
             \/ pc = "reposts" /\ unique_tracks' = <<>>]_vars

\* The scheduler sleeps after a cycle that has saved its state.
C20_Witness ==
    /\ pc = "sleeping"
    /\ mode = "forever"
    /\ persisted # {}
    /\ file = CompleteFile(persisted)

\* C21 as claimed: a process in single-cycle mode does not end with an
\* exception, and its cycle has passed through the save when it ends.
C21_OncePersistsAndReturns ==
    mode = "once" =>
        /\ pc # "crashed"
        /\ pc = "cycle_end" => flushed

\* C21 as amended: a process in single-cycle mode comes to its end; it returns
\* from the end of its one cycle, having saved exactly when the batch was not
\* empty, or ends with the exception of a failed save; whatever the sources,
\* the extraction and the likes do, nothing else ends it, and nothing follows
\* its end.
C21_OnceTerminates ==
    /\ (pc = "run_once") ~> (pc \in {"exited", "crashed"})
    /\ [][/\ (pc' = "crashed" /\ pc # "crashed") =>
                \/ pc = "saving"
                \/ pc = "acting" /\ track_ix > Len(unique_tracks)
          /\ (pc' = "exited" /\ pc # "exited") =>
                /\ pc = "cycle_end"
                /\ flushed <=> unique_tracks # <<>>
          /\ pc \in {"exited", "crashed"} => pc' = pc]_vars

\* A single cycle in which a like failed has saved its state and returned.
C21_Witness ==
    /\ mode = "once"
    /\ pc = "exited"
    /\ likeFailed # {}
    /\ file = CompleteFile(processed_tracks)
    /\ processed_tracks # {}

\* C22: no step of a diagnostic query changes processed_tracks or the state
\* file, whatever the sources yield and wherever they fail.
C22_DiagnosticsKeepStore ==
    [][(mode \in DiagModes) =>
          /\ processed_tracks' = processed_tracks
          /\ file' = file]_vars

\* The repost query has listed an item, the copy of the repost loop that
\* follows it has found a track, and the process has a processed set.
C22_Witness ==
    /\ mode = "user_reposts"
    /\ pc = "diag_tail"
    /\ verdict # <<>>
    /\ Len(verdict[1].shown) = 1
    /\ all_tracks # <<>>
    /\ processed_tracks # {}
    /\ file = CompleteFile(processed_tracks)

\* C23: in a cycle time.sleep has run after every remote like call, and
\* after every fetch from a source that another fetch follows.
C23_AlwaysPaced ==
    /\ \A i \in 1..Len(log) : log[i].called => log[i].slept
    /\ \A i \in 1..(Len(srcLog) - 1) : srcLog[i].slept

\* C24: apply_filters returns, and returns True exactly when every active
\* rule holds: the duration in seconds is at least the minimum and at most
\* the maximum (each when not 0, both inclusive), the lower-cased genre is
\* among the lower-cased genres (when there are any), and likes_count is at
\* least min_likes.
C24_PassIffAllRulesHold ==
    (probe.kind = "filter" /\ verdict # <<>>) =>
        LET t == probe.track
            f == probe.filters
            rules ==
                /\ f.min_duration_seconds = 0
                      \/ t.duration >= f.min_duration_seconds * 1000
                /\ f.max_duration_seconds = 0
                      \/ t.duration <= f.max_duration_seconds * 1000
                /\ f.genres = <<>> \/ Lower(t.genre) \in LowerAll(f.genres)
                /\ t.likes_count >= f.min_likes
        IN  /\ verdict[1] \in {"pass", "reject"}
            /\ verdict[1] = "pass" <=> rules

\* C25: over the generic track list the repost loop returns, in order, the
\* usable, unprocessed, recent tracks whose publisher is not the queried
\* artist, and none the artist has published; over the repost listing it
\* returns the usable, unprocessed, recent tracks whoever published them.
C25_PublisherDecidesInFallback ==
    (probe.kind = "extract" /\ verdict # <<>>) =>
        LET dicts == [i \in 1..Len(probe.items) |->
                         get_track_info(IF probe.use_repost_method
                                        THEN Unwrap(probe.items[i])
                                        ELSE probe.items[i])]
            candidate(d) ==
                /\ ~Unusable(d)
                /\ d.id \notin probe.processed
                /\ is_track_recent(d.created_at, probe.cutoff_time)
        IN  /\ probe.use_repost_method =>
                  verdict[1].reposts = SelectSeq(dicts, candidate)
            /\ ~probe.use_repost_method =>
                  /\ verdict[1].reposts =
                        SelectSeq(dicts, LAMBDA d : candidate(d) /\ d.uid # 7)
                  /\ \A i \in 1..Len(verdict[1].reposts) :
                        verdict[1].reposts[i].uid # 7

\* The generic list gave a track of the artist's own and a track of another
\* publisher, and only the second was returned.
C25_Witness ==
    /\ probe.kind = "extract"
    /\ ~probe.use_repost_method
    /\ probe.items = <<OwnUpload, Item("bare", 1, NoTs, 3000, "Rock", 5, 9)>>
    /\ probe.processed = {}
    /\ verdict # <<>>
    /\ Len(verdict[1].reposts) = 1
    /\ verdict[1].reposts[1].uid = 9

\* C26 as claimed: in a cycle every source is fetched before the first
\* like_track call, every apply_filters decision is made before the first
\* like_track call, and the save comes after the last like_track call.
C26_PhasesInOrder ==
    /\ log # <<>> =>
          [i \in 1..Len(srcLog) |-> srcLog[i].src] = EnabledSources
    /\ \A i, j \in 1..Len(log) : i < j => ~log[i].attempted
    /\ (pc \in {"saving", "cycle_end"} /\ unique_tracks # <<>>) =>
          Len(log) = Len(unique_tracks)
    /\ pc \in {"reposts", "acting"} => ~flushed /\ file.state \in {"missing", "complete"}

\* C26 as amended: in a cycle every source is fetched before the first
\* apply_filters decision and the first like_track call; the batch is then
\* handled track by track in its order, the decision on a track coming
\* before the like_track call for that track and after the calls for the
\* tracks before it; and the save comes after the last of them.
C26_FetchThenPerTrackThenSave ==
    /\ log # <<>> =>
          /\ pc \in {"acting", "saving", "cycle_end"}
          /\ [i \in 1..Len(srcLog) |-> srcLog[i].src] = EnabledSources
    /\ Len(log) <= Len(unique_tracks)
    /\ \A i \in 1..Len(log) :
          /\ log[i].track = unique_tracks[i]
          /\ log[i].attempted <=> apply_filters(log[i].track, config.filters) = "pass"
    /\ (pc \in {"saving", "cycle_end"} /\ unique_tracks # <<>>) =>
          Len(log) = Len(unique_tracks)
    /\ pc \in {"reposts", "acting"} => ~flushed /\ file.state \in {"missing", "complete"}

\* A cycle over two sources has saved after a batch in which a track was
\* rejected by the filter after like_track had been called for the track
\* before it.
C26_Witness ==
    /\ pc = "cycle_end"
    /\ flushed
    /\ Len(srcLog) = 2
    /\ \E i, j \in 1..Len(log) :
          i < j /\ log[i].attempted /\ log[j].outcome = "filtered"

C28_MarkedForAReason ==
    [][\A id \in processed_tracks' \ processed_tracks :
          \/ /\ pc \in {"exited", "killed"}
             /\ load_processed_tracks(file).ok
             /\ id \in load_processed_tracks(file).ids
          \/ /\ pc = "acting"
             /\ Len(log') = Len(log) + 1
             /\ log'[Len(log')].track.id = id
             /\ log'[Len(log')].outcome \in {"simulated", "liked", "filtered"}]_vars

\* A single-cycle process that started with identifiers from the state file
\* has handled two tracks: the one apply_filters rejected or like_track liked
\* is marked, the one apply_filters raised on is not.
C28_Witness ==
    /\ mode = "once"
    /\ pc = "cycle_end"
    /\ startProcessed # {}
    /\ Len(log) = 2
    /\ \E i, j \in 1..2 :
          /\ log[i].outcome \in {"filtered", "simulated", "liked"}
          /\ log[j].outcome = "raised"
          /\ log[i].track.id \notin startProcessed
          /\ processed_tracks = startProcessed \cup {log[i].track.id}

\* C29: with dry_run false and no auth_token, neither of two cycles in a row
\* calls client.like_track; every track that passes apply_filters ends its
\* cycle with like_track having returned False and its identifier outside
\* processed_tracks; and every such track of the first cycle that is still
\* inside the window of the second is handled again by the second, with the
\* same result.
C29_NoTokenNoLikeNoMark ==
    (probe.kind = "cycle" /\ verdict # <<>>
        /\ ~probe.cfg.dry_run /\ ~probe.cfg.auth_token) =>
        LET first == verdict[1].first
            second == verdict[1].second
            passed(c) == {i \in 1..Len(c.log) :
                            apply_filters(c.log[i].track, probe.cfg.filters) = "pass"}
        IN  /\ \A c \in {first, second} :
                  /\ \A i \in 1..Len(c.log) : ~c.log[i].called
                  /\ \A i \in passed(c) :
                        /\ c.log[i].attempted
                        /\ c.log[i].outcome \in {"no_auth", "no_id"}
                        /\ c.log[i].track.id \notin c.processed
            /\ \A i \in passed(first) :
                  InWindow(first.log[i].track, probe.cutoff2) =>
                      \E j \in passed(second) :
                          second.log[j].track = first.log[i].track

\* Without a token and not in dry-run mode, the first cycle handled two
\* tracks that pass the filter, one with a timestamp; like_track refused
\* both, and the second cycle, its cutoff the same, handled both again.
C29_Witness ==
    /\ probe.kind = "cycle"
    /\ verdict # <<>>
    /\ ~probe.cfg.dry_run
    /\ ~probe.cfg.auth_token
    /\ probe.cutoff1 = probe.cutoff2
    /\ Len(verdict[1].first.log) = 2
    /\ \A i \in 1..2 : verdict[1].first.log[i].outcome = "no_auth"
    /\ \E i \in 1..2 : verdict[1].first.log[i].track.created_at.kind = "iso"
    /\ verdict[1].second.log = verdict[1].first.log
    /\ verdict[1].second.processed = probe.processed

====
